---- MODULE Spec2Model ----
(***************************************************************************)
(* Model of go/packages/packagestest/marker.go: the Markers engine that    *)
(* extracts //@ marker comments from source text, computes the anchor      *)
(* table with the built-in "mark" method and dispatches the markers to     *)
(* handler functions through type-directed argument converters.            *)
(*                                                                         *)
(* A []byte or string is a sequence of bytes; a byte is a one-character    *)
(* string, except the two bytes of the UTF-8 encoding of U+03B1 (alpha),   *)
(* written "CE" and "B1", and the backtick, written "BT".                  *)
(***************************************************************************)
EXTENDS Integers, Sequences, FiniteSets, TLC

VARIABLES anchors, anchorsNil, markers, errors, last, markRuns, nCalls, contents,
          anchoredLen

vars == <<anchors, anchorsNil, markers, errors, last, markRuns, nCalls, contents,
          anchoredLen>>

(***************************************************************************)
(* Bytes and the byte-slice functions of the standard library that         *)
(* Extract and the converters call.                                        *)
(***************************************************************************)
NL == "\n"
DQ == "\""
BQ == "BT"
LeadByte == "CE"
ContByte == "B1"
Alpha == <<LeadByte, ContByte>>

markerComment == <<"/", "/", "@">>

Letters == {"a", "b", "c", "k", "m", "p", "q", "r", "X", "Y"}
Digits == {"1", "2"}
Spaces == {" ", "\t", "\r", NL}

\* s[from..] as a slice (1-based, empty when from is past the end)
Drop(s, k) == SubSeq(s, k + 1, Len(s))
Take(s, k) == SubSeq(s, 1, k)

\* bytes.Index: byte index (0-based) of the first occurrence of sep in s, -1 if none
Index(s, sep) ==
  LET hits == {i \in 0..(Len(s) - Len(sep)) : SubSeq(s, i + 1, i + Len(sep)) = sep}
  IN IF hits = {} THEN -1 ELSE CHOOSE i \in hits : \A j \in hits : i <= j

\* bytes.SplitAfter(s, sep): the pieces keep their separator
RECURSIVE SplitAfter(_, _)
SplitAfter(s, sep) ==
  LET i == Index(s, sep)
  IN IF i < 0 THEN <<s>>
     ELSE <<Take(s, i + Len(sep))>> \o SplitAfter(Drop(s, i + Len(sep)), sep)

\* bytes.Split(s, sep): the pieces lose their separator
RECURSIVE Split(_, _)
Split(s, sep) ==
  LET i == Index(s, sep)
  IN IF i < 0 THEN <<s>>
     ELSE <<Take(s, i)>> \o Split(Drop(s, i + Len(sep)), sep)

\* strings.TrimSpace
TrimLeft(s) ==
  LET k == CHOOSE k \in 0..Len(s) :
             /\ \A j \in 1..k : s[j] \in Spaces
             /\ k < Len(s) => s[k + 1] \notin Spaces
  IN Drop(s, k)
TrimRight(s) ==
  LET k == CHOOSE k \in 0..Len(s) :
             /\ \A j \in (k + 1)..Len(s) : s[j] \in Spaces
             /\ k > 0 => s[k] \notin Spaces
  IN Take(s, k)
TrimSpace(s) == TrimRight(TrimLeft(s))

\* strconv.Quote on text without quotes, backslashes or control bytes
Quote(s) == <<DQ>> \o s \o <<DQ>>

\* strconv.Unquote of an interpreted or raw string literal; ok is FALSE for
\* anything else
Unquote(v) ==
  IF Len(v) >= 2 /\ v[1] = v[Len(v)] /\ v[1] \in {DQ, BQ}
     /\ \A i \in 2..(Len(v) - 1) : v[i] # v[1] /\ (v[1] = DQ => v[i] # NL)
  THEN [ok |-> TRUE, s |-> SubSeq(v, 2, Len(v) - 1)]
  ELSE [ok |-> FALSE, s |-> <<>>]

\* strconv.Atoi on decimal digits
DigitVal(d) == IF d = "1" THEN 1 ELSE 2
RECURSIVE AtoiDigits(_, _)
AtoiDigits(s, acc) ==
  IF s = <<>> THEN acc ELSE AtoiDigits(Tail(s), acc * 10 + DigitVal(s[1]))
Atoi(v) ==
  IF v # <<>> /\ \A i \in 1..Len(v) : v[i] \in Digits
  THEN [ok |-> TRUE, n |-> AtoiDigits(v, 0)]
  ELSE [ok |-> FALSE, n |-> 0]

(***************************************************************************)
(* go/scanner and go/parser.ParseExpr on the expression sub-language of    *)
(* marker bodies: an operand (identifier, string literal, raw string       *)
(* literal, integer literal), or a call operand(args) whose arguments are  *)
(* operands.                                                               *)
(***************************************************************************)
\* width in bytes of the letter starting at s[i], 0 if no letter starts there
LetterWidth(s, i) ==
  IF i > Len(s) THEN 0
  ELSE IF s[i] \in Letters THEN 1
  ELSE IF s[i] = LeadByte /\ i + 1 <= Len(s) /\ s[i + 1] = ContByte THEN 2
  ELSE 0

\* TRUE iff s[k] is a byte of a letter or a digit
IsIdentByte(s, k) ==
  \/ s[k] \in Letters \cup Digits
  \/ s[k] = LeadByte /\ k + 1 <= Len(s) /\ s[k + 1] = ContByte
  \/ s[k] = ContByte /\ k > 1 /\ s[k - 1] = LeadByte

\* the index after the identifier that starts at s[i]
IdentEnd(s, i) ==
  CHOOSE j \in i..(Len(s) + 1) :
    /\ \A k \in i..(j - 1) : IsIdentByte(s, k)
    /\ j <= Len(s) => ~IsIdentByte(s, j)

\* the index after the digits that start at s[i]
DigitsEnd(s, i) ==
  CHOOSE j \in i..(Len(s) + 1) :
    /\ \A k \in i..(j - 1) : s[k] \in Digits
    /\ j <= Len(s) => s[j] \notin Digits

\* the closing quote of the literal opened at s[i], given the least index j
\* after i of a byte equal to s[i] (0 if none): 0 if the literal is unterminated
closingAt(s, i, j) ==
  IF j = 0 THEN 0
  ELSE IF s[i] = DQ /\ \E k \in (i + 1)..j : s[k] = NL THEN 0
  ELSE j

\* index of the closing quote of the literal opened at s[i], 0 if unterminated
ClosingQuote(s, i) ==
  closingAt(s, i, IF \E j \in (i + 1)..Len(s) : s[j] = s[i]
                 THEN CHOOSE j \in (i + 1)..Len(s) :
                        s[j] = s[i] /\ \A k \in (i + 1)..(j - 1) : s[k] # s[i]
                 ELSE 0)

\* the token of kind t that ends before index next
token(s, i, t, next) == [t |-> t, lit |-> SubSeq(s, i, next - 1), next |-> next]

\* the string token opened at s[i] and closed at s[close]; none when close = 0
stringToken(s, i, close) ==
  IF close = 0 THEN [t |-> "ILLEGAL", lit |-> <<>>, next |-> Len(s) + 1]
  ELSE token(s, i, "STRING", close + 1)

\* the token that starts at s[i] and the index after it; a token "SPACE" is
\* skipped, and scanning stops at an "ILLEGAL" one
Scan(s, i) ==
  IF s[i] \in Spaces THEN [t |-> "SPACE", lit |-> <<>>, next |-> i + 1]
  ELSE IF LetterWidth(s, i) > 0 THEN token(s, i, "IDENT", IdentEnd(s, i))
  ELSE IF s[i] \in Digits THEN token(s, i, "INT", DigitsEnd(s, i))
  ELSE IF s[i] \in {DQ, BQ} THEN stringToken(s, i, ClosingQuote(s, i))
  ELSE IF s[i] \in {"(", ")", ","} THEN [t |-> s[i], lit |-> <<>>, next |-> i + 1]
  ELSE [t |-> "ILLEGAL", lit |-> <<>>, next |-> Len(s) + 1]

RECURSIVE Tokenize(_, _)
\* the tokens from the scanned token r on
tokensFrom(s, r) ==
  (IF r.t = "SPACE" THEN <<>> ELSE <<[t |-> r.t, lit |-> r.lit]>>)
    \o Tokenize(s, r.next)

Tokenize(s, i) == IF i > Len(s) THEN <<>> ELSE tokensFrom(s, Scan(s, i))

IsOperand(tok) == tok.t \in {"IDENT", "INT", "STRING"}

\* ast.Ident / ast.BasicLit of an operand token
Operand(tok) ==
  IF tok.t = "IDENT" THEN [kind |-> "Ident", name |-> tok.lit]
  ELSE [kind |-> "BasicLit", tok |-> tok.t, value |-> tok.lit]

ParseError == [kind |-> "Error"]

\* the argument list between the parentheses: operands separated by commas,
\* with an optional trailing comma; ok is FALSE on a syntax error
RECURSIVE ParseArgs(_)
argsWith(tok, r) == [ok |-> r.ok, args |-> <<Operand(tok)>> \o r.args]
ParseArgs(toks) ==
  IF toks = <<>> THEN [ok |-> TRUE, args |-> <<>>]
  ELSE IF ~IsOperand(toks[1]) THEN [ok |-> FALSE, args |-> <<>>]
  ELSE IF Len(toks) = 1 THEN [ok |-> TRUE, args |-> <<Operand(toks[1])>>]
  ELSE IF toks[2].t # "," THEN [ok |-> FALSE, args |-> <<>>]
  ELSE argsWith(toks[1], ParseArgs(Drop(toks, 2)))

\* the call expression of fun and the parsed argument list r
callExpr(fun, r) ==
  IF r.ok THEN [kind |-> "CallExpr", fun |-> Operand(fun), args |-> r.args]
  ELSE ParseError

\* the expression of a token sequence
parseTokens(toks) ==
  IF Len(toks) = 0 \/ ~IsOperand(toks[1]) THEN ParseError
  ELSE IF Len(toks) = 1 THEN Operand(toks[1])
  ELSE IF toks[2].t = "(" /\ Len(toks) >= 3 /\ toks[Len(toks)].t = ")"
  THEN callExpr(toks[1], ParseArgs(SubSeq(toks, 3, Len(toks) - 1)))
  ELSE ParseError

ParseExpr(body) == parseTokens(Tokenize(body, 1))

(***************************************************************************)
(* Extract: the line index and the marker parser.                          *)
(***************************************************************************)
\* identLit with the name left unquoted
identLit_unquoted(expr) ==
  [kind |-> "BasicLit", tok |-> "STRING", value |-> expr.name]

\* the string literal that Extract builds for the identifier expr
identLit(expr) ==
  [kind |-> "BasicLit", tok |-> "STRING", value |-> Quote(expr.name)]

\* the marker (or the error) that the parsed marker body expr yields on line l
markerOfExpr(l, expr) ==
  IF expr.kind = "Error" THEN [err |-> "syntax"]
  ELSE IF expr.kind = "Ident" THEN
    [err |-> "",
     marker |-> [line |-> l, method |-> <<"m", "a", "r", "k">>,
                 args |-> <<expr, identLit(expr)>>]]
  ELSE IF expr.kind = "CallExpr" THEN
    IF expr.fun.kind # "Ident" THEN [err |-> "function must be an identifier"]
    ELSE [err |-> "",
          marker |-> [line |-> l, method |-> expr.fun.name, args |-> expr.args]]
  ELSE [err |-> "unhandled marker expression type"]

\* the marker (or the error) that one marker body yields on line l
markerOf(l, part) == markerOfExpr(l, ParseExpr(TrimSpace(part)))

\* extractParts going on after an error
RECURSIVE extractParts_goOn(_, _, _)
goOnWith(l, parts, acc, r) ==
  IF r.err # ""
  THEN [markers |-> extractParts_goOn(l, Tail(parts), acc).markers, err |-> r.err]
  ELSE extractParts_goOn(l, Tail(parts), Append(acc, r.marker))
extractParts_goOn(l, parts, acc) ==
  IF parts = <<>> THEN [markers |-> acc, err |-> ""]
  ELSE goOnWith(l, parts, acc, markerOf(l, parts[1]))

\* the inner loop of Extract over parts[1:]; stops at the first error
RECURSIVE extractParts(_, _, _)
\* the loop after the first part yielded r
extractPartsWith(l, parts, acc, r) ==
  IF r.err # "" THEN [markers |-> acc, err |-> r.err]
  ELSE extractParts(l, Tail(parts), Append(acc, r.marker))
extractParts(l, parts, acc) ==
  IF parts = <<>> THEN [markers |-> acc, err |-> ""]
  ELSE extractPartsWith(l, parts, acc, markerOf(l, parts[1]))

\* nextOffset by the length of the stripped line
nextOffset_stripped(offset, lValue, parts) == offset + Len(parts[1])

\* offset += len(lValue)
nextOffset(offset, lValue, parts) == offset + Len(lValue)

\* the line object of the n-th line
lineOf(filename, n, offset, parts) ==
  [file |-> filename, number |-> n, value |-> parts[1], offset |-> offset]

\* the outer loop of Extract over the lines; lines collects the line objects
RECURSIVE extractLines(_, _, _, _, _, _)
\* the loop after the markers of line n were extracted with result r
extractLinesWith(filename, segs, n, next, accL, r) ==
  IF r.err # "" THEN [markers |-> r.markers, lines |-> accL, err |-> r.err]
  ELSE extractLines(filename, segs, n + 1, next, r.markers, accL)
\* the loop body for line n, split into parts
extractLine(filename, segs, n, offset, accM, accL, parts) ==
  extractLinesWith(filename, segs, n, nextOffset(offset, segs[n], parts),
                   Append(accL, lineOf(filename, n, offset, parts)),
                   extractParts(lineOf(filename, n, offset, parts), Tail(parts), accM))
extractLines(filename, segs, n, offset, accM, accL) ==
  IF n > Len(segs) THEN [markers |-> accM, lines |-> accL, err |-> ""]
  ELSE extractLine(filename, segs, n, offset, accM, accL, Split(segs[n], markerComment))

\* what Extract appends for a file content, the lines it creates and its error
extractContent(filename, content) ==
  extractLines(filename, SplitAfter(content, <<NL>>), 1, 0, <<>>, <<>>)

(***************************************************************************)
(* regexp.Compile and Regexp.FindIndex on patterns that are concatenations *)
(* of literal bytes, "." and groups.                                       *)
(***************************************************************************)
RECURSIVE parenDepthOk(_, _)
parenDepthOk(p, d) ==
  IF p = <<>> THEN d = 0
  ELSE IF p[1] = "(" THEN parenDepthOk(Tail(p), d + 1)
  ELSE IF p[1] = ")" THEN d > 0 /\ parenDepthOk(Tail(p), d - 1)
  ELSE parenDepthOk(Tail(p), d)

\* regexp.Compile: unbalanced parentheses are a syntax error
Compile(p) == [ok |-> parenDepthOk(p, 0), re |-> p]

\* width in bytes of the rune at b[i] (an invalid byte decodes as one rune)
RuneWidth(b, i) ==
  IF b[i] = LeadByte /\ i + 1 <= Len(b) /\ b[i + 1] = ContByte THEN 2 ELSE 1

\* TRUE iff re matches b starting at 1-based index i
RECURSIVE matchAt(_, _, _)
matchAt(re, b, i) ==
  IF re = <<>> THEN TRUE
  ELSE IF re[1] \in {"(", ")"} THEN matchAt(Tail(re), b, i)
  ELSE IF i > Len(b) THEN FALSE
  ELSE IF re[1] = "." THEN b[i] # NL /\ matchAt(Tail(re), b, i + RuneWidth(b, i))
  ELSE b[i] = re[1] /\ matchAt(Tail(re), b, i + 1)

\* the 0-based offsets at which a rune of b starts, and the end of b
RECURSIVE runeStarts(_, _)
runeStarts(b, i) ==
  IF i > Len(b) THEN {Len(b)} ELSE {i - 1} \cup runeStarts(b, i + RuneWidth(b, i))

\* Regexp.FindIndex: start of the leftmost match, -1 for a nil result
FindIndex(re, b) ==
  LET hits == {i \in runeStarts(b, 1) : matchAt(re, b, i + 1)}
  IN IF hits = {} THEN -1 ELSE CHOOSE i \in hits : \A j \in hits : i <= j

(***************************************************************************)
(* buildConverter: the converters, by declared parameter type.             *)
(***************************************************************************)
testingType == "*testing.T"
markersType == "*Markers"
positionType == "Position"
stringKind == "string"
intKind == "int"
boolKind == "bool"

NoValue == [k |-> "none"]
EmptyAnchors == [n \in {} |-> NoValue]

okConv(v, args, ev) == [status |-> "ok", msg |-> "", value |-> v, args |-> args, events |-> ev]
fatalConv(msg, args, ev) ==
  [status |-> "fatal", msg |-> msg, value |-> NoValue, args |-> args, events |-> ev]
panicConv(args) ==
  [status |-> "panic", msg |-> "index out of range", value |-> NoValue, args |-> args,
   events |-> <<>>]

\* positionAt without the offset of the line
positionAt_inLine(a, i) ==
  [Filename |-> a.line.file, Line |-> a.line.number,
   Column |-> Len(Take(a.line.value, i)) + 1, Offset |-> i]

\* the Position of byte index i of the line of marker a
positionAt(a, i) ==
  [Filename |-> a.line.file, Line |-> a.line.number,
   Column |-> Len(Take(a.line.value, i)) + 1, Offset |-> a.line.offset + i]

\* the converter built for positionType
convertPosition(a, args, anch, idx) ==
  IF Len(args) < 1 THEN fatalConv("Missing argument", args, <<>>)
  ELSE LET arg == args[1]
           rest == Tail(args)
       IN IF arg.kind = "Ident" THEN
            IF arg.name \in DOMAIN anch
            THEN okConv([k |-> "Position", pos |-> anch[arg.name]], rest,
                        <<[e |-> "lookup", idx |-> idx, name |-> arg.name, found |-> TRUE,
                           pos |-> anch[arg.name]]>>)
            ELSE fatalConv("Cannot find anchor", rest,
                        <<[e |-> "lookup", idx |-> idx, name |-> arg.name, found |-> FALSE,
                           pos |-> NoValue]>>)
          ELSE IF arg.kind = "BasicLit" THEN
            LET u == Unquote(arg.value)
                re == Compile(u.s)
                i == IF arg.value[1] = BQ THEN FindIndex(re.re, a.line.value)
                     ELSE Index(a.line.value, u.s)
            IN IF ~u.ok THEN fatalConv("Invalid string literal", rest, <<>>)
               ELSE IF arg.value[1] = BQ /\ ~re.ok THEN fatalConv("regexp syntax", rest, <<>>)
               ELSE IF i < 0 THEN fatalConv("Pattern was not present in line", rest, <<>>)
               ELSE okConv([k |-> "Position", pos |-> positionAt(a, i)], rest,
                           <<[e |-> "match", idx |-> idx, raw |-> arg.value[1] = BQ,
                              pattern |-> u.s, pos |-> positionAt(a, i)]>>)
          ELSE fatalConv("Cannot convert to position", rest, <<>>)

\* the converter built for a parameter of string kind
convertString(a, args) ==
  IF Len(args) < 1 THEN panicConv(args)
  ELSE LET arg == args[1]
           rest == Tail(args)
       IN IF arg.kind = "Ident" THEN okConv([k |-> "string", s |-> arg.name], rest, <<>>)
          ELSE IF arg.kind = "BasicLit" THEN
            IF arg.tok # "STRING" THEN fatalConv("Non string literal", rest, <<>>)
            ELSE IF ~Unquote(arg.value).ok THEN fatalConv("Invalid string literal", rest, <<>>)
            ELSE okConv([k |-> "string", s |-> Unquote(arg.value).s], rest, <<>>)
          ELSE fatalConv("Cannot convert to string", rest, <<>>)

\* the converter built for a parameter of int kind
convertInt(a, args) ==
  IF Len(args) < 1 THEN panicConv(args)
  ELSE LET arg == args[1]
           rest == Tail(args)
       IN IF arg.kind # "BasicLit" THEN fatalConv("Integer args must be a literal", rest, <<>>)
          ELSE IF arg.tok # "INT" THEN fatalConv("Non integer literal", rest, <<>>)
          ELSE IF ~Atoi(arg.value).ok THEN fatalConv("Cannot convert to int", rest, <<>>)
          ELSE okConv([k |-> "int", n |-> Atoi(arg.value).n], rest, <<>>)

SupportedTypes == {testingType, markersType, positionType, stringKind, intKind}

\* buildConverter: the converter is named by its type; ok is FALSE where
\* buildConverter calls t.Fatalf
buildConverter(pt) == [ok |-> pt \in SupportedTypes, conv |-> pt]

\* applying a converter that buildConverter returned
convert(conv, a, args, anch, idx) ==
  IF conv = testingType THEN okConv([k |-> "T"], args, <<>>)
  ELSE IF conv = markersType THEN okConv([k |-> "Markers"], args, <<>>)
  ELSE IF conv = positionType THEN convertPosition(a, args, anch, idx)
  ELSE IF conv = stringKind THEN convertString(a, args)
  ELSE IF conv = intKind THEN convertInt(a, args)
  ELSE fatalConv("Action param has invalid type", args, <<>>)

(***************************************************************************)
(* Invoke and Anchors.  An execution is threaded through a record st:      *)
(* the anchor table, the status of the running call ("ok", "fatal" after   *)
(* t.Fatalf, "panic" after a run-time panic) and the trace of what the     *)
(* call did so far.                                                        *)
(***************************************************************************)
MARK == <<"m", "a", "r", "k">>

event(st, ev) == [st EXCEPT !.trace = Append(@, ev)]

stop(st, status, msg, idx) ==
  [event(st, [e |-> status, msg |-> msg, idx |-> idx])
     EXCEPT !.status = status, !.msg = msg]

\* markFunc with the binding overwritten on a duplicate
markFunc_overwrite(st, idx, name, pos) ==
  LET bound == [st EXCEPT !.anchors = [n \in DOMAIN @ \cup {name} |->
                                        IF n = name THEN pos ELSE @[n]]]
  IN IF name \in DOMAIN st.anchors
     THEN event(bound, [e |-> "errorf", idx |-> idx, name |-> name,
                        old |-> st.anchors[name], pos |-> pos])
     ELSE bound

\* the func literal that Anchors binds to "mark"
markFunc(st, idx, name, pos) ==
  IF name \in DOMAIN st.anchors
  THEN event(st, [e |-> "errorf", idx |-> idx, name |-> name,
                  old |-> st.anchors[name], pos |-> pos])
  ELSE [st EXCEPT !.anchors = [n \in DOMAIN @ \cup {name} |->
                                 IF n = name THEN pos ELSE @[n]]]

\* the method table that Anchors passes to Invoke
markMethods == [n \in {MARK} |->
                 [builtin |-> TRUE,
                  in |-> <<testingType, markersType, stringKind, positionType>>]]

\* mi.f.Call(params)
callMethod(st, mi, a, idx, params) ==
  LET st1 == event(st, [e |-> "call", idx |-> idx, builtin |-> mi.builtin,
                        method |-> a.method, params |-> params])
  IN IF mi.builtin THEN markFunc(st1, idx, params[3].s, params[4].pos) ELSE st1

\* the loop over mi.converters in Invoke
RECURSIVE convertAll(_, _, _, _, _, _, _)
convertAll(convs, a, args, anch, idx, params, events) ==
  IF convs = <<>>
  THEN [status |-> "ok", msg |-> "", params |-> params, args |-> args, events |-> events]
  ELSE LET r == convert(convs[1], a, args, anch, idx)
       IN IF r.status # "ok"
          THEN [status |-> r.status, msg |-> r.msg, params |-> params, args |-> r.args,
                events |-> events \o r.events]
          ELSE convertAll(Tail(convs), a, r.args, anch, idx, Append(params, r.value),
                          events \o r.events)

\* register with the unsupported types left to the converters
register_deferred(methods) ==
  [ok |-> TRUE,
   ms |-> [name \in DOMAIN methods |->
            [builtin |-> methods[name].builtin, converters |-> methods[name].in]]]

\* the first loop of Invoke: ok is FALSE when buildConverter fails for some parameter
register(methods) ==
  [ok |-> \A name \in DOMAIN methods :
            \A i \in 1..Len(methods[name].in) : buildConverter(methods[name].in[i]).ok,
   ms |-> [name \in DOMAIN methods |->
            [builtin |-> methods[name].builtin,
             converters |-> [i \in 1..Len(methods[name].in) |->
                               buildConverter(methods[name].in[i]).conv]]]]

\* one iteration of the second loop of Invoke, for the marker ms[idx]
invokeMarker(st, ms, mks, idx) ==
  LET a == mks[idx]
      mi == ms[a.method]
      r == convertAll(mi.converters, a, a.args, st.anchors, idx, <<>>, <<>>)
      st1 == [event(st, [e |-> "convert", idx |-> idx, builtin |-> mi.builtin])
                EXCEPT !.trace = @ \o r.events]
  IN IF a.method \notin DOMAIN ms THEN st
     ELSE IF r.status # "ok" THEN stop(st1, r.status, r.msg, idx)
     ELSE IF Len(r.args) > 0 THEN stop(st1, "fatal", "Unwanted args", idx)
     ELSE callMethod(st1, mi, a, idx, r.params)

\* invokeMarkers with break in place of continue for a marker without method
RECURSIVE invokeMarkers_break(_, _, _, _)
invokeMarkers_break(st, ms, mks, idx) ==
  IF idx > Len(mks) \/ st.status # "ok" THEN st
  ELSE IF mks[idx].method \notin DOMAIN ms THEN st
  ELSE invokeMarkers_break(invokeMarker(st, ms, mks, idx), ms, mks, idx + 1)

\* the second loop of Invoke, from marker idx on
RECURSIVE invokeMarkers(_, _, _, _)
invokeMarkers(st, ms, mks, idx) ==
  IF idx > Len(mks) \/ st.status # "ok" THEN st
  ELSE invokeMarkers(invokeMarker(st, ms, mks, idx), ms, mks, idx + 1)

\* Invoke after its call of Anchors
invokeBody(st, methods, mks) ==
  LET reg == register(methods)
  IN IF ~reg.ok THEN stop(st, "fatal", "Action param has invalid type", 0)
     ELSE invokeMarkers(event(st, [e |-> "registered"]), reg.ms, mks, 1)

\* anchorsOf without the test for a nil table
anchorsOf_always(st, mks) ==
  invokeBody([st EXCEPT !.anchorsNil = FALSE,
                        !.anchors = IF st.anchorsNil THEN EmptyAnchors ELSE @],
             markMethods, mks)

\* Anchors: computes the table when it is nil.  Its call of Invoke calls
\* Anchors again, which then finds the table non-nil.
anchorsOf(st, mks) ==
  IF st.anchorsNil
  THEN invokeBody([st EXCEPT !.anchorsNil = FALSE, !.anchors = EmptyAnchors],
                  markMethods, mks)
  ELSE st

\* Invoke
invoke(st, methods, mks) ==
  LET st1 == anchorsOf(st, mks)
  IN IF st1.status # "ok" THEN st1 ELSE invokeBody(st1, methods, mks)

(***************************************************************************)
(* Inputs: marker comments in the style of testdata/markers.go, the files  *)
(* on disk and the method tables of the callers.                           *)
(***************************************************************************)
MaxCalls == 3
MaxLines == 2

Str(x) == <<DQ>> \o x \o <<DQ>>
Raw(x) == <<BQ>> \o x \o <<BQ>>
RECURSIVE JoinArgs(_)
JoinArgs(args) ==
  IF args = <<>> THEN <<>>
  ELSE IF Len(args) = 1 THEN args[1]
  ELSE args[1] \o <<",", " ">> \o JoinArgs(Tail(args))
\* the comment //@f(args)
Mk(f, args) == markerComment \o f \o <<"(">> \o JoinArgs(args) \o <<")">>
\* the comment //@body
MkBody(body) == markerComment \o body
RECURSIVE Cat(_)
Cat(ss) == IF ss = <<>> THEN <<>> ELSE ss[1] \o Cat(Tail(ss))

sX == <<"X">>
sY == <<"Y">>
sa == <<"a">>
sb == <<"b">>
sc == <<"c">>
sp == <<"p">>
sq == <<"q">>
SP == <<" ">>

Disk ==
  [n \in {"dup.go", "fwd.go", "use.go", "arity.go", "extra.go", "bad.go", "lit.go", "greek.go"} |->
    CASE n = "dup.go" ->
           Cat(<<sX, SP, sa, SP, MkBody(sX), SP, Mk(MARK, <<sX, Str(sa)>>), SP,
                 Mk(MARK, <<sY, sX>>), <<NL>>,
                 Mk(sc, <<sY, sY>>), SP, Mk(sq, <<<<"1">>>>), <<NL>>>>)
      [] n = "fwd.go" ->
           Cat(<<sX, SP, Mk(MARK, <<sY, sX>>), SP, MkBody(sX), <<NL>>>>)
      [] n = "use.go" ->
           Cat(<<sa, SP, Mk(sc, <<sX, sX>>), SP, Mk(MARK, <<sX, Str(sa)>>), <<NL>>,
                 Mk(sp, <<sa, <<"1", "2">>>>)>>)
      [] n = "arity.go" ->
           Cat(<<sX, SP, MkBody(sX), SP, Mk(sc, <<sX>>), SP, Mk(sp, <<sa>>), <<NL>>>>)
      [] n = "extra.go" ->
           Cat(<<sX, SP, MkBody(sX), SP, Mk(sc, <<sX, sX, <<"1">>>>), SP, Mk(sp, <<>>)>>)
      [] n = "bad.go" ->
           Cat(<<sX, SP, MkBody(sX), SP, MkBody(<<"(">>), SP, MkBody(sY), <<NL>>,
                 sY, SP, MkBody(sY), <<NL>>>>)
      [] n = "lit.go" ->
           Cat(<<sY, SP, MkBody(sY), SP, MkBody(Str(sa) \o <<"(">> \o sX \o <<")">>),
                 SP, MkBody(sX)>>)
      [] n = "greek.go" ->
           Cat(<<Alpha, sb, SP, Mk(MARK, <<sX, Str(sb)>>), SP,
                 Mk(MARK, <<sY, Raw(<<".", "b">>)>>), SP, Mk(sc, <<Alpha, sX>>), <<NL>>>>)]

\* ioutil.ReadFile
ReadFile(name) ==
  IF name \in DOMAIN Disk THEN [ok |-> TRUE, content |-> Disk[name]]
  ELSE [ok |-> FALSE, content |-> <<>>]

FileNames == DOMAIN Disk \cup {"missing.go"}

userMethod(in) == [builtin |-> FALSE, in |-> in]

\* the method tables passed to Invoke
MethodTables ==
  { [n \in {sc} |-> userMethod(<<stringKind, positionType>>)],
    [n \in {sp} |-> userMethod(<<stringKind, intKind>>)],
    [n \in {sc, sp} |-> IF n = sc THEN userMethod(<<testingType, stringKind, positionType>>)
                        ELSE userMethod(<<markersType, stringKind, intKind>>)],
    [n \in {MARK} |-> userMethod(<<stringKind, positionType>>)],
    [n \in {sq} |-> userMethod(<<intKind, boolKind>>)],
    [n \in {sc, sb} |-> IF n = sc THEN userMethod(<<stringKind, positionType>>)
                        ELSE userMethod(<<boolKind>>)] }

NoMethods == [n \in {} |-> userMethod(<<>>)]

\* the lines that generated files are made of
LinePool ==
  { <<>>,
    sa,
    Cat(<<sX, SP, MkBody(sX)>>),
    Cat(<<sX, SP, sa, MkBody(sX), SP, Mk(MARK, <<sX, Str(sa)>>)>>),
    Cat(<<Alpha, sa, sb, SP, Mk(MARK, <<sX, Str(sb)>>), SP,
          Mk(MARK, <<sY, Raw(<<".", "b">>)>>)>>),
    Cat(<<sa, Alpha, sb, SP, MkBody(Alpha \o sb)>>),
    Cat(<<Alpha, sX, SP, markerComment, SP, MARK, <<"(">>, sX, <<",">>, Str(sX), <<")">>, SP>>),
    Cat(<<sX, SP, MkBody(sX), SP, MkBody(<<"(">>), SP, MkBody(sY)>>),
    Cat(<<sa, MkBody(<<"1", "2">>)>>),
    Cat(<<sY, SP, MkBody(Str(sa) \o <<"(">> \o sX \o <<")">>)>>),
    Cat(<<sY, SP, Mk(sc, <<sY, sY>>), SP, MkBody(sY)>>),
    Cat(<<sa, MkBody(<<>>)>>) }

\* the files of 1..MaxLines lines from LinePool, each line terminated by a
\* newline except, possibly, the last
RECURSIVE JoinLines(_, _)
JoinLines(ls, finalNL) ==
  IF ls = <<>> THEN <<>>
  ELSE IF Len(ls) = 1 THEN ls[1] \o (IF finalNL THEN <<NL>> ELSE <<>>)
  ELSE ls[1] \o <<NL>> \o JoinLines(Tail(ls), finalNL)

GenFiles ==
  {JoinLines(ls, nl) : ls \in UNION {[1..k -> LinePool] : k \in 1..MaxLines},
                       nl \in BOOLEAN}

(***************************************************************************)
(* The engine as a state machine.  anchors/anchorsNil and markers are the  *)
(* fields of Markers; errors collects the t.Errorf reports, markRuns the   *)
(* calls of the built-in mark method, contents the file contents that were *)
(* extracted, anchoredLen the number of markers present when the anchor    *)
(* table was computed, and last describes the latest call.                 *)
(***************************************************************************)
NoCall ==
  [op |-> "none", status |-> "ok", msg |-> "", trace |-> <<>>, lines |-> <<>>,
   file |-> "", content |-> <<>>, methods |-> NoMethods, before |-> <<>>,
   nilBefore |-> TRUE, anchorsBefore |-> EmptyAnchors]

Init ==
  /\ anchors = EmptyAnchors
  /\ anchorsNil = TRUE
  /\ markers = <<>>
  /\ errors = <<>>
  /\ markRuns = <<>>
  /\ last = NoCall
  /\ nCalls = 0
  /\ contents = [n \in {} |-> <<>>]
  /\ anchoredLen = 0

\* a process that panicked is gone
Alive == last.status # "panic" /\ nCalls < MaxCalls

IsErrorf(ev) == ev.e = "errorf"
IsBuiltinCall(ev) == ev.e = "call" /\ ev.builtin
RECURSIVE idxOf(_)
idxOf(evs) == IF evs = <<>> THEN <<>> ELSE <<evs[1].idx>> \o idxOf(Tail(evs))
IsStop(ev) == ev.e \in {"fatal", "panic"}

\* the state after Extract read rd and extracted r
extracted(filename, rd, r) ==
  /\ markers' = IF rd.ok THEN markers \o r.markers ELSE markers
  /\ last' = [NoCall EXCEPT !.op = "Extract",
                !.status = IF rd.ok /\ r.err = "" THEN "ok" ELSE "error",
                !.msg = IF rd.ok THEN r.err ELSE "Could not read test file",
                !.lines = IF rd.ok THEN r.lines ELSE <<>>,
                !.file = filename, !.content = rd.content,
                !.before = markers, !.nilBefore = anchorsNil,
                !.anchorsBefore = anchors]
  /\ nCalls' = nCalls + 1
  /\ contents' = IF rd.ok
                  THEN [n \in DOMAIN contents \cup {filename} |->
                          IF n = filename THEN rd.content ELSE contents[n]]
                  ELSE contents
  /\ UNCHANGED <<anchors, anchorsNil, errors, markRuns, anchoredLen>>

\* Extract of what was read
extractRead(filename, rd) == extracted(filename, rd, extractContent(filename, rd.content))

\* m.Extract(filename, content); content is read from disk when isNil
ExtractFile(filename, content, isNil) ==
  /\ Alive
  /\ extractRead(filename, IF isNil THEN ReadFile(filename)
                           ELSE [ok |-> TRUE, content |-> content])

Extract ==
  \E filename \in FileNames, isNil \in BOOLEAN :
    /\ isNil \/ filename \in DOMAIN Disk
    /\ ExtractFile(filename, IF isNil THEN <<>> ELSE Disk[filename], isNil)

ExtractGen ==
  \E content \in GenFiles : nCalls = 0 /\ ExtractFile("gen.go", content, FALSE)

\* the state after a call that ran to st
finish(op, methods, st) ==
  /\ anchors' = st.anchors
  /\ anchorsNil' = st.anchorsNil
  /\ errors' = errors \o SelectSeq(st.trace, IsErrorf)
  /\ markRuns' = markRuns \o SelectSeq(st.trace, IsBuiltinCall)
  /\ anchoredLen' = IF anchorsNil THEN Len(markers) ELSE anchoredLen
  /\ last' = [NoCall EXCEPT !.op = op, !.status = st.status, !.msg = st.msg,
                !.trace = st.trace, !.methods = methods, !.before = markers,
                !.nilBefore = anchorsNil,
                   !.anchorsBefore = anchors]
  /\ nCalls' = nCalls + 1
  /\ UNCHANGED <<markers, contents>>

start == [anchors |-> anchors, anchorsNil |-> anchorsNil, status |-> "ok", msg |-> "",
          trace |-> <<>>]

\* m.Anchors(t)
Anchors == Alive /\ finish("Anchors", NoMethods, anchorsOf(start, markers))

\* m.Invoke(t, methods)
Invoke == \E methods \in MethodTables :
            Alive /\ finish("Invoke", methods, invoke(start, methods, markers))

Next == Extract \/ Anchors \/ Invoke

Spec == Init /\ [][Next]_vars

NextGen == ExtractGen \/ Anchors \/ Invoke

SpecGen == Init /\ [][NextGen]_vars

(***************************************************************************)
(* Properties.                                                             *)
(***************************************************************************)
IsEngineCall == last.op \in {"Anchors", "Invoke"}

Min(a, b) == IF a < b THEN a ELSE b

\* the number of runes of b
RECURSIVE RuneCount(_)
RuneCount(b) == IF b = <<>> THEN 0 ELSE 1 + RuneCount(Drop(b, RuneWidth(b, 1)))

\* the indices of the markers of mks whose method is a key of methods, in order
RECURSIVE Ascending(_, _)
Ascending(T, acc) ==
  IF T = {} THEN acc
  ELSE LET x == CHOOSE z \in T : \A y \in T : z <= y
       IN Ascending(T \ {x}, Append(acc, x))

MatchingIdx(mks, methods) ==
  Ascending({i \in 1..Len(mks) : mks[i].method \in DOMAIN methods}, <<>>)

IsUserCall(ev) == ev.e = "call" /\ ~ev.builtin
IsUserConvert(ev) == ev.e = "convert" /\ ~ev.builtin
IsRegistered(ev) == ev.e = "registered"

\* TRUE iff the latest call ran the anchor pass
RanAnchorPass == IsEngineCall /\ last.nilBefore

\* the marker index at which the anchor pass of the latest call was stopped
\* by t.Fatalf or a panic; past the last marker when it ran to its end
AnchorPassStop ==
  LET stops == SelectSeq(last.trace, IsStop)
  IN IF stops # <<>> /\ stops[1].idx > 0 /\ Len(SelectSeq(last.trace, IsRegistered)) = 1
     THEN stops[1].idx ELSE Len(markers) + 1

DeclsOf(name) == SelectSeq(markRuns, LAMBDA ev : ev.params[3].s = name)
DupErrorsOf(name) == SelectSeq(errors, LAMBDA ev : ev.name = name)
DeclaredNames == {markRuns[i].params[3].s : i \in 1..Len(markRuns)}

\* C1: anchors are first-wins.  For every name that the built-in mark method
\* was called for k >= 1 times, the table holds the position of the first of
\* these calls and exactly k-1 duplicate errors were reported, each naming the
\* retained position; the table has no other name; and a duplicate never stops
\* the anchor pass: the mark method was called for every mark marker up to the
\* end of the pass.
C1_FirstWins ==
  /\ DOMAIN anchors = DeclaredNames
  /\ \A name \in DeclaredNames :
       /\ anchors[name] = DeclsOf(name)[1].params[4].pos
       /\ Len(DupErrorsOf(name)) = Len(DeclsOf(name)) - 1
       /\ \A j \in 1..Len(DupErrorsOf(name)) :
            /\ DupErrorsOf(name)[j].old = anchors[name]
            /\ DupErrorsOf(name)[j].pos = DeclsOf(name)[j + 1].params[4].pos
  /\ RanAnchorPass =>
       idxOf(SelectSeq(last.trace, IsBuiltinCall))
         = SelectSeq(MatchingIdx(markers, markMethods), LAMBDA i : i < AnchorPassStop)

\* a name declared three times at two different positions, after a pass that
\* ran to its end and called the mark method after a duplicate
C1_Witness ==
  /\ RanAnchorPass /\ last.status = "ok"
  /\ \E name \in DeclaredNames :
       /\ Len(DeclsOf(name)) >= 3
       /\ \E j \in 1..Len(DeclsOf(name)) :
            DeclsOf(name)[j].params[4].pos # anchors[name]
  /\ \E i \in 1..Len(markRuns) : \E j \in 1..Len(errors) : markRuns[i].idx > errors[j].idx

\* C2: an Invoke call without a fatal condition calls the handlers of its
\* table for exactly the markers whose method is a key of the table, once
\* each and in extraction order, with the handler of the marker's method; it
\* converts arguments for no other marker; and Extract appends to the marker
\* sequence in line order.
C2_DispatchOrder ==
  /\ (last.op = "Invoke" /\ last.status = "ok") =>
       /\ idxOf(SelectSeq(last.trace, IsUserCall)) = MatchingIdx(markers, last.methods)
       /\ idxOf(SelectSeq(last.trace, IsUserConvert)) = MatchingIdx(markers, last.methods)
       /\ \A j \in 1..Len(last.trace) :
            IsUserCall(last.trace[j]) =>
              last.trace[j].method = markers[last.trace[j].idx].method
  /\ last.op = "Extract" =>
       /\ Len(markers) >= Len(last.before)
       /\ Take(markers, Len(last.before)) = last.before
       /\ \A i, j \in (Len(last.before) + 1)..Len(markers) :
            i < j => /\ markers[i].line.file = last.file
                     /\ markers[i].line.number <= markers[j].line.number

\* an Invoke that called two handlers and skipped a marker between them
C2_Witness ==
  /\ last.op = "Invoke" /\ last.status = "ok"
  /\ \E i, j, k \in 1..Len(markers) :
       /\ i < j /\ j < k
       /\ markers[i].method \in DOMAIN last.methods
       /\ markers[j].method \notin DOMAIN last.methods
       /\ markers[k].method \in DOMAIN last.methods

NoDup(seq) == \A i, j \in 1..Len(seq) : i # j => seq[i] # seq[j]

\* C4: the anchor table is computed once and then frozen.  Once the table is
\* non-nil, no call changes a binding of it, makes it nil again or calls the
\* built-in mark method; and the built-in mark method is called at most once
\* for each marker.
C4_Frozen ==
  [][/\ ~anchorsNil => /\ ~anchorsNil'
                        /\ anchors' = anchors
                        /\ markRuns' = markRuns
     /\ NoDup(idxOf(markRuns'))]_vars

\* a later Anchors or Invoke call on a computed table, after an Extract that
\* appended a mark marker which the table does not hold
C4_Witness ==
  /\ IsEngineCall /\ ~last.nilBefore
  /\ \E i \in 1..Len(markers) :
       /\ markers[i].method = MARK
       /\ i > anchoredLen
       /\ markers[i].args[1].kind = "Ident"
       /\ markers[i].args[1].name \notin DOMAIN anchors

\* TRUE iff some mark marker present when the table was computed declares name
DeclaredBy(name) ==
  \E i \in 1..Min(anchoredLen, Len(markers)) :
    /\ markers[i].method = MARK
    /\ Len(markers[i].args) >= 1
    /\ markers[i].args[1].kind = "Ident"
    /\ markers[i].args[1].name = name

IsLookup(ev) == ev.e = "lookup"

\* C3: every Position argument that is an identifier naming an anchor
\* declared by a mark marker of the extracted sequence resolves to the
\* position the anchor table holds for that name, in every pass, whether the
\* declaration comes before or after the reference.
C3_LookupsValid ==
  IsEngineCall =>
    \A j \in 1..Len(last.trace) :
      (IsLookup(last.trace[j]) /\ DeclaredBy(last.trace[j].name)) =>
        /\ last.trace[j].found
        /\ last.trace[j].name \in DOMAIN anchors
        /\ last.trace[j].pos = anchors[last.trace[j].name]

HasInvalidType(methods) ==
  \E name \in DOMAIN methods :
    \E i \in 1..Len(methods[name].in) : methods[name].in[i] \notin SupportedTypes

IsDispatch(ev) == ev.e \in {"convert", "call"}
InvalidTypeMsg == "Action param has invalid type"

\* C7 as stated: an Invoke whose table has a handler with an unsupported
\* parameter type raises the invalid-type fatal error before any marker is
\* processed in that call.
C7_BeforeAnyMarker ==
  (last.op = "Invoke" /\ HasInvalidType(last.methods)) =>
    /\ last.status = "fatal" /\ last.msg = InvalidTypeMsg
    /\ SelectSeq(last.trace, IsDispatch) = <<>>

\* TRUE iff the anchor pass that the latest call ran was stopped
AnchorPassStopped == RanAnchorPass /\ AnchorPassStop <= Len(markers)

\* C7 amended: unless the anchor pass that this Invoke call runs itself (the
\* table being nil) is stopped by a fatal error or a panic, an Invoke whose
\* table has a handler with an unsupported parameter type raises the
\* invalid-type fatal error at registration: no argument is converted for and
\* no call is made to a handler of that table, the error is the last thing
\* the call does, and only the anchor pass precedes it (nothing when the
\* table was computed before).
C7_AtRegistration ==
  (last.op = "Invoke" /\ HasInvalidType(last.methods) /\ ~AnchorPassStopped) =>
    /\ last.status = "fatal" /\ last.msg = InvalidTypeMsg
    /\ SelectSeq(last.trace, IsUserConvert) = <<>>
    /\ SelectSeq(last.trace, IsUserCall) = <<>>
    /\ last.trace # <<>> /\ last.trace[Len(last.trace)].e = "fatal"
    /\ last.trace[Len(last.trace)].msg = InvalidTypeMsg
    /\ ~last.nilBefore => Len(last.trace) = 1

\* such an Invoke on a sequence with a marker that names the handler with the
\* unsupported type, once with the anchor pass before it and once without
C7_Witness ==
  /\ last.op = "Invoke" /\ HasInvalidType(last.methods) /\ ~AnchorPassStopped
  /\ \E i \in 1..Len(markers) :
       /\ markers[i].method \in DOMAIN last.methods
       /\ \E k \in 1..Len(last.methods[markers[i].method].in) :
            last.methods[markers[i].method].in[k] \notin SupportedTypes
  /\ last.nilBefore /\ SelectSeq(last.trace, IsBuiltinCall) # <<>>

\* the number of argument expressions that the converters of in consume
RECURSIVE Consumed(_)
Consumed(in) ==
  IF in = <<>> THEN 0
  ELSE (IF in[1] \in {positionType, stringKind, intKind} THEN 1 ELSE 0) + Consumed(Tail(in))

MethodOf(ev) ==
  IF ev.builtin THEN markMethods[MARK] ELSE last.methods[markers[ev.idx].method]

\* C8: every dispatched marker whose number of arguments differs from the
\* number its handler's converters consume makes Invoke report a fatal error
\* through the test context, and its handler is not called.
C8_ArityFatal ==
  IsEngineCall =>
    \A j \in 1..Len(last.trace) :
      (/\ last.trace[j].e = "convert"
       /\ Len(markers[last.trace[j].idx].args) # Consumed(MethodOf(last.trace[j]).in)) =>
        /\ last.status = "fatal"
        /\ \A k \in 1..Len(last.trace) :
             last.trace[k].e = "call" => last.trace[k].idx # last.trace[j].idx

IsMatch(ev) == ev.e = "match"
NLCount(b) == Cardinality({k \in 1..Len(b) : b[k] = NL})

\* what C5 states of one match, but for the column
MatchPlaced(ev) ==
  LET a == markers[ev.idx]
      pos == ev.pos
      i == pos.Offset - a.line.offset
      c == contents[pos.Filename]
  IN /\ pos.Filename = a.line.file /\ pos.Line = a.line.number
     /\ i >= 0 /\ i <= Len(a.line.value)
     /\ IF ev.raw
        THEN /\ matchAt(ev.pattern, a.line.value, i + 1)
             /\ \A k \in runeStarts(a.line.value, 1) :
                  k < i => ~matchAt(ev.pattern, a.line.value, k + 1)
        ELSE /\ SubSeq(a.line.value, i + 1, i + Len(ev.pattern)) = ev.pattern
             /\ \A k \in 0..(i - 1) :
                  SubSeq(a.line.value, k + 1, k + Len(ev.pattern)) # ev.pattern
     /\ SubSeq(c, pos.Offset + 1, pos.Offset + Len(a.line.value) - i) = Drop(a.line.value, i)
     /\ NLCount(Take(c, pos.Offset)) = pos.Line - 1

\* C5 as stated: a string or regular expression argument of a Position
\* parameter yields the file and line of the marker, the byte offset of the
\* first match in the file, and as column the number of runes before the
\* match in the line, plus 1.
C5_ColumnInRunes ==
  IsEngineCall =>
    \A j \in 1..Len(last.trace) :
      IsMatch(last.trace[j]) =>
        /\ MatchPlaced(last.trace[j])
        /\ last.trace[j].pos.Column =
             RuneCount(Take(markers[last.trace[j].idx].line.value,
                            last.trace[j].pos.Offset
                              - markers[last.trace[j].idx].line.offset)) + 1

\* C5 amended: the column is the number of bytes before the match in the
\* line, plus 1.
C5_ColumnInBytes ==
  IsEngineCall =>
    \A j \in 1..Len(last.trace) :
      IsMatch(last.trace[j]) =>
        /\ MatchPlaced(last.trace[j])
        /\ last.trace[j].pos.Column =
             last.trace[j].pos.Offset - markers[last.trace[j].idx].line.offset + 1

\* a string match and a regular expression match after a multi-byte
\* character, on a line that is not the first of its file
C5_Witness ==
  /\ IsEngineCall
  /\ \A raw \in BOOLEAN :
       \E j \in 1..Len(last.trace) :
         /\ IsMatch(last.trace[j]) /\ last.trace[j].raw = raw
         /\ LET a == markers[last.trace[j].idx]
                i == last.trace[j].pos.Offset - a.line.offset
            IN /\ a.line.offset > 0
               /\ RuneCount(Take(a.line.value, i)) < i

\* C6: the lines that Extract creates are numbered from 1, line i starts
\* right after the (i-1)-th newline of the file (the first at offset 0), its
\* content is the text of the file from there up to the first marker comment
\* or the end of the line, and an Extract that succeeds creates one line per
\* newline plus one, so that the offsets and original lengths add up to the
\* length of the file.
C6_LineOffsets ==
  (last.op = "Extract" /\ last.msg # "Could not read test file") =>
    LET c == last.content
        L == last.lines
    IN /\ \A i \in 1..Len(L) :
            LET seg == SubSeq(c, L[i].offset + 1, Len(c))
                end == IF Index(seg, <<NL>>) < 0 THEN Len(seg) ELSE Index(seg, <<NL>>) + 1
                cut == Index(Take(seg, end), markerComment)
            IN /\ L[i].number = i
               /\ L[i].offset >= 0 /\ L[i].offset <= Len(c)
               /\ i = 1 => L[i].offset = 0
               /\ i > 1 => c[L[i].offset] = NL
               /\ NLCount(Take(c, L[i].offset)) = i - 1
               /\ L[i].value = Take(seg, IF cut < 0 THEN end ELSE cut)
               /\ i < Len(L) => L[i + 1].offset = L[i].offset + end
               /\ (i = Len(L) /\ last.status = "ok") => L[i].offset + end = Len(c)
       /\ last.status = "ok" => Len(L) = NLCount(c) + 1
       /\ \A k \in (Len(last.before) + 1)..Len(markers) :
            \E i \in 1..Len(L) : markers[k].line = L[i]

\* an Extract of a file with two marker comments on a line that is followed
\* by another line with a marker
C6_Witness ==
  /\ last.op = "Extract" /\ last.status = "ok"
  /\ \E i, j, k \in 1..Len(markers) :
       /\ i # j
       /\ markers[i].line = markers[j].line
       /\ markers[k].line.number > markers[i].line.number

\* TRUE iff body is one identifier and nothing else
IsBareIdent(body) ==
  LetterWidth(body, 1) > 0 /\ IdentEnd(body, 1) = Len(body) + 1

\* the text of a marker body with a bare identifier X written as mark(X, "X"),
\* the white space around it kept
DesugarPart(part) ==
  LET body == TrimSpace(part)
      lead == Take(part, Len(part) - Len(TrimLeft(part)))
      trail == Drop(TrimLeft(part), Len(body))
  IN IF IsBareIdent(body)
     THEN Cat(<<lead, MARK, <<"(">>, body, <<",", " ">>, Str(body), <<")">>, trail>>)
     ELSE part

RECURSIVE DesugarParts(_)
DesugarParts(parts) ==
  IF parts = <<>> THEN <<>>
  ELSE markerComment \o DesugarPart(parts[1]) \o DesugarParts(Tail(parts))

RECURSIVE DesugarLines(_)
DesugarLines(segs) ==
  IF segs = <<>> THEN <<>>
  ELSE LET parts == Split(segs[1], markerComment)
       IN parts[1] \o DesugarParts(Tail(parts)) \o DesugarLines(Tail(segs))

\* the file content with every bare-identifier marker written as a mark call
Desugar(content) == DesugarLines(SplitAfter(content, <<NL>>))

\* a marker and a position without the byte offsets that the longer text shifts
MarkerShape(m) ==
  [method |-> m.method, args |-> m.args, file |-> m.line.file,
   number |-> m.line.number, value |-> m.line.value]
PositionShape(p) == [Filename |-> p.Filename, Line |-> p.Line, Column |-> p.Column]
GenName == "gen.go"
Fresh == [anchors |-> EmptyAnchors, anchorsNil |-> TRUE, status |-> "ok", msg |-> "",
          trace |-> <<>>]
RECURSIVE namesOf(_)
namesOf(evs) == IF evs = <<>> THEN <<>> ELSE <<evs[1].name>> \o namesOf(Tail(evs))

\* C9: a bare-identifier marker is the two-argument mark call.  Extracting a
\* file and extracting the same file with every marker //@X written as
\* //@mark(X, "X") give the same result and the same markers (method,
\* arguments and line), and the first Anchors or Invoke call on either gives
\* the same outcome, the same anchors (name, file, line and column) and the
\* same duplicate errors.
C9_SugarIsMark ==
  GenName \in DOMAIN contents =>
    LET d == extractContent(GenName, Desugar(contents[GenName]))
        sd == IF last.op = "Anchors" THEN anchorsOf(Fresh, d.markers)
              ELSE invoke(Fresh, last.methods, d.markers)
    IN /\ Len(d.markers) = Len(markers)
       /\ \A i \in 1..Len(markers) : MarkerShape(d.markers[i]) = MarkerShape(markers[i])
       /\ last.op = "Extract" => last.msg = d.err
       /\ RanAnchorPass =>
            /\ sd.status = last.status /\ sd.msg = last.msg
            /\ DOMAIN sd.anchors = DOMAIN anchors
            /\ \A n \in DOMAIN anchors :
                 PositionShape(sd.anchors[n]) = PositionShape(anchors[n])
            /\ namesOf(SelectSeq(sd.trace, IsErrorf)) = namesOf(errors)
            /\ Len(sd.trace) = Len(last.trace)

\* an anchor pass over a file with a bare-identifier marker whose name has a
\* multi-byte letter, and a table that holds that name
C9_Witness ==
  /\ GenName \in DOMAIN contents
  /\ Desugar(contents[GenName]) # contents[GenName]
  /\ RanAnchorPass /\ last.status = "ok"
  /\ \E n \in DOMAIN anchors : n[1] = LeadByte
  /\ \E i \in 1..Len(markers) :
       /\ markers[i].args[1].kind = "Ident"
       /\ markers[i].args[1].name[1] = LeadByte
       /\ Len(markers[i].args) = 2 /\ markers[i].args[2].value = Str(markers[i].args[1].name)

\* the marker bodies of a file content, in order, each with its line number
RECURSIVE BodiesOf(_, _)
BodiesOf(segs, n) ==
  IF n > Len(segs) THEN <<>>
  ELSE LET parts == Tail(Split(segs[n], markerComment))
       IN [k \in 1..Len(parts) |-> [number |-> n, part |-> parts[k]]]
            \o BodiesOf(segs, n + 1)

\* TRUE iff Extract rejects the marker body
Rejected(part) ==
  LET e == ParseExpr(TrimSpace(part))
  IN \/ e.kind \notin {"Ident", "CallExpr"}
     \/ e.kind = "CallExpr" /\ e.fun.kind # "Ident"

\* C10: an Extract that returns an error leaves the anchor table and the
\* markers extracted before as they were and appends exactly the markers of
\* the bodies that precede the first rejected body of the file, in order
\* (none when the file could not be read).
C10_FailedExtract ==
  (last.op = "Extract" /\ last.status = "error") =>
    /\ anchors = last.anchorsBefore /\ anchorsNil = last.nilBefore
    /\ Len(markers) >= Len(last.before)
    /\ Take(markers, Len(last.before)) = last.before
    /\ IF last.msg = "Could not read test file" THEN markers = last.before
       ELSE LET bodies == BodiesOf(SplitAfter(last.content, <<NL>>), 1)
                n == Len(markers) - Len(last.before)
            IN /\ n < Len(bodies)
               /\ Rejected(bodies[n + 1].part)
               /\ \A k \in 1..n :
                    LET m == markers[Len(last.before) + k]
                        e == ParseExpr(TrimSpace(bodies[k].part))
                    IN /\ ~Rejected(bodies[k].part)
                       /\ m.line.number = bodies[k].number
                       /\ m.line.file = last.file
                       /\ IF e.kind = "Ident"
                          THEN m.method = MARK /\ m.args[1] = e
                          ELSE m.method = e.fun.name /\ m.args = e.args

\* a failed Extract that appended a marker to earlier markers, with bodies
\* after the rejected one on the same line and on a later line, on an engine
\* whose anchor table holds a name
C10_Witness ==
  /\ last.op = "Extract" /\ last.status = "error"
  /\ Len(last.before) > 0 /\ Len(markers) > Len(last.before)
  /\ DOMAIN anchors # {}
  /\ LET bodies == BodiesOf(SplitAfter(last.content, <<NL>>), 1)
     IN /\ Len(bodies) > Len(markers) - Len(last.before) + 1
        /\ bodies[Len(bodies)].number > markers[Len(markers)].line.number
====
